---------------------------- MODULE Spec2Model ----------------------------
(***************************************************************************)
(* Model of deepcvlab/utils/Dense_U_Net_lidar_helper.py: the lidar point   *)
(* splatter, the range re-encoder and the three downsamplers, the ground   *)
(* truth heat-map synthesizer and the whole-image IoU metric.              *)
(*                                                                         *)
(* Numbers.  Range values are kept in tenths (25.0 m is 250, the sentinel  *)
(* -1.0 is -10, the encoded 255 is 2550), so that the slope -6.2 is the    *)
(* exact integer operation -62*v/10 on the distances used (multiples of    *)
(* 0.5 m).  Heat-map and confidence values are kept in hundredths (0.3 is  *)
(* 30, 1.0 is 100).                                                        *)
(*                                                                         *)
(* Geometry.  The pooling geometry is scaled by 1/5: stride 10 becomes 2,  *)
(* the lidar kernel (20,10) becomes (4,2), the square kernel 10 becomes 2, *)
(* and the 1280 x 1920 frame becomes 6 x 4, so that the 128 x 192 target   *)
(* becomes 3 x 2.  The kernel/stride ratios, the floor in the output size  *)
(* and the one replicated bottom row are those of the code.                *)
(***************************************************************************)
EXTENDS Integers, Sequences, FiniteSets

VARIABLES
    \* lidar_array_to_image_like_tensor
    kernel_size,      \* the kernel_size argument
    lidar_array,      \* the sequence of samples [x, y, d]
    idx,              \* how many samples the for loop has processed
    range_tensor,     \* the grid being written
    splat_pc,         \* "loop" | "done"
    \* pool_lidar_tensor, avgpool_tensor, maxpool_tensor
    pool_fn,          \* which of the three functions is called
    passed,           \* the values of the argument tensor when the call was made
    img_tensor,       \* the argument tensor (the caller's object, written in place)
    pool_ret,         \* the returned tensor (empty before the return)
    pool_pc,          \* "called" | "returned"
    \* _create_ground_truth_bb
    object_class,     \* the object_class argument
    bb_width,         \* the width argument
    bb_height,        \* the height argument
    ground_truth_box, \* the returned box (empty before the return)
    bb_pc,            \* "called" | "returned" | "raised"
    \* create_ground_truth_maps
    ground_truth,     \* the labels, in the order of ground_truth.values()
    elem_idx,         \* how many labels the for loop has processed
    maps,             \* the heat map being written: channel -> cell -> value
    gt_pc,            \* "loop" | "done" | "raised"
    \* compute_IoU_whole_img_per_class
    ground_truth_map,    \* class -> cell -> value
    estimated_heat_map,  \* class -> cell -> value
    threshold,
    iou_per_class,       \* class -> score (empty before the return)
    iou_pc,              \* "called" | "returned" | "raised"
    \* compute_IoU_whole_img_batch
    gt_batch,                    \* instance -> class -> cell -> value
    est_batch,                   \* instance -> class -> cell -> value
    batch_threshold,
    batch_i,                     \* the loop variable i: how many instances the for loop has scored
    iou_per_instance_per_class,  \* instance -> class -> score
    batch_ret,                   \* class -> mean score (empty before the return)
    batch_pc,                    \* "loop" | "returned"
    \* distribute_data_into_train_val_test
    split_arg,     \* the split the function was called with, in tenths
    split,         \* the local name split, in tenths
    data_root,     \* the 'tf_' directories: the number of files of each datatype
    dir_idx,       \* how many directories the for loop has processed
    indices,       \* directory -> the shuffled file indices
    moved,         \* directory -> datatype -> file index -> subset
    split_pc       \* "loop" | "done"

splatVars == <<kernel_size, lidar_array, idx, range_tensor, splat_pc>>
poolVars == <<pool_fn, passed, img_tensor, pool_ret, pool_pc>>
bbVars == <<object_class, bb_width, bb_height, ground_truth_box, bb_pc>>
gtVars == <<ground_truth, elem_idx, maps, gt_pc>>
iouVars == <<ground_truth_map, estimated_heat_map, threshold, iou_per_class, iou_pc>>
batchVars ==
    <<gt_batch, est_batch, batch_threshold, batch_i, iou_per_instance_per_class, batch_ret, batch_pc>>
splitVars == <<split_arg, split, data_root, dir_idx, indices, moved, split_pc>>

vars == <<splatVars, poolVars, bbVars, gtVars, iouVars, batchVars, splitVars>>

\* the variables of the functions other than the one named
notSplat == <<poolVars, bbVars, gtVars, iouVars, batchVars, splitVars>>
notPool == <<splatVars, bbVars, gtVars, iouVars, batchVars, splitVars>>
notBB == <<splatVars, poolVars, gtVars, iouVars, batchVars, splitVars>>
notGT == <<splatVars, poolVars, bbVars, iouVars, batchVars, splitVars>>
notIoU == <<splatVars, poolVars, bbVars, gtVars, batchVars, splitVars>>
notBatch == <<splatVars, poolVars, bbVars, gtVars, iouVars, splitVars>>
notSplit == <<splatVars, poolVars, bbVars, gtVars, iouVars, batchVars>>

----------------------------------------------------------------------------
(* Helpers *)

Min2(a, b) == IF a < b THEN a ELSE b
Max2(a, b) == IF a > b THEN a ELSE b

SetMax(S) == CHOOSE m \in S : \A e \in S : e <= m
SetMin(S) == CHOOSE m \in S : \A e \in S : m <= e

\* q is a sequence over S of length at most n
IsSeqUpTo(q, S, n) == \E len \in 0 .. n : q \in [1 .. len -> S]

----------------------------------------------------------------------------
(* lidar_array_to_image_like_tensor (Point Splatter) *)

\* the sentinel the grid is initialised with: torch.ones(shape)*-1.0, in tenths
NoReturn == -10

\* the shape argument (channels, height, width); the default is (1,1280,1920)
shape == <<1, 4, 3>>

\* bound on the number of samples in lidar_array
MaxSamples == 2

SplatCells == (0 .. shape[2] - 1) \X (0 .. shape[3] - 1)

\* range values of the samples, in tenths
SplatRanges == {50, 600}

\* odd kernel sizes
KernelSizes == {1, 3, 5}

\* samples whose pixel lies inside the grid
Samples == [x : 0 .. shape[3] - 1, y : 0 .. shape[2] - 1, d : SplatRanges]

shift(k) == (k - 1) \div 2

min_y(s, k) == IF s.y - shift(k) < 0 THEN 0 ELSE s.y - shift(k)
max_y(s, k) == IF s.y + shift(k) + 1 > shape[2] - 1 THEN shape[2] - 1 ELSE s.y + shift(k) + 1
min_x(s, k) == IF s.x - shift(k) < 0 THEN 0 ELSE s.x - shift(k)
max_x(s, k) == IF s.x + shift(k) + 1 > shape[3] - 1 THEN shape[3] - 1 ELSE s.x + shift(k) + 1

\* the cells of the slice [min_y:max_y, min_x:max_x] (upper ends excluded)
SplatSlice(s, k) ==
    {p \in SplatCells : /\ min_y(s, k) <= p[1] /\ p[1] < max_y(s, k)
                        /\ min_x(s, k) <= p[2] /\ p[2] < max_x(s, k)}

\* a splat that keeps the nearer of the old and the new value
SplatAssignNearest(t, s, k) ==
    [p \in SplatCells |->
        IF p \in SplatSlice(s, k) /\ (t[p] = NoReturn \/ s.d < t[p]) THEN s.d ELSE t[p]]

\* range_tensor[0, min_y:max_y, min_x:max_x] = d.item()
SplatAssign(t, s, k) ==
    [p \in SplatCells |-> IF p \in SplatSlice(s, k) THEN s.d ELSE t[p]]

\* the other functions are not running
SplatIdle ==
    /\ kernel_size = 1
    /\ lidar_array = <<>>
    /\ idx = 0
    /\ range_tensor = <<>>
    /\ splat_pc = "idle"

PoolIdle ==
    /\ pool_fn = "idle"
    /\ passed = <<>>
    /\ img_tensor = <<>>
    /\ pool_ret = <<>>
    /\ pool_pc = "idle"

BBIdle ==
    /\ object_class = 0
    /\ bb_width = 0
    /\ bb_height = 0
    /\ ground_truth_box = <<>>
    /\ bb_pc = "idle"

GTIdle ==
    /\ ground_truth = <<>>
    /\ elem_idx = 0
    /\ maps = <<>>
    /\ gt_pc = "idle"

IoUIdle ==
    /\ ground_truth_map = <<>>
    /\ estimated_heat_map = <<>>
    /\ threshold = 0
    /\ iou_per_class = <<>>
    /\ iou_pc = "idle"

BatchIdle ==
    /\ gt_batch = <<>>
    /\ est_batch = <<>>
    /\ batch_threshold = 0
    /\ batch_i = 0
    /\ iou_per_instance_per_class = <<>>
    /\ batch_ret = <<>>
    /\ batch_pc = "idle"

SplitIdle ==
    /\ split_arg = <<>>
    /\ split = <<>>
    /\ data_root = <<>>
    /\ dir_idx = 0
    /\ indices = <<>>
    /\ moved = <<>>
    /\ split_pc = "idle"

SplatInit ==
    /\ PoolIdle /\ BBIdle /\ GTIdle /\ IoUIdle /\ BatchIdle /\ SplitIdle
    /\ kernel_size \in KernelSizes
    /\ IsSeqUpTo(lidar_array, Samples, MaxSamples)
    /\ idx = 0
    /\ range_tensor = [p \in SplatCells |-> NoReturn]
    /\ splat_pc = "loop"

\* one iteration of: for [x, y, d] in lidar_array
SplatStep ==
    /\ splat_pc = "loop"
    /\ idx < Len(lidar_array)
    /\ range_tensor' = SplatAssign(range_tensor, lidar_array[idx + 1], kernel_size)
    /\ idx' = idx + 1
    /\ UNCHANGED <<kernel_size, lidar_array, splat_pc, notSplat>>

\* return range_tensor
SplatReturn ==
    /\ splat_pc = "loop"
    /\ idx = Len(lidar_array)
    /\ splat_pc' = "done"
    /\ UNCHANGED <<kernel_size, lidar_array, idx, range_tensor, notSplat>>

SplatNext == SplatStep \/ SplatReturn

SpecSplat == SplatInit /\ [][SplatNext]_vars

----------------------------------------------------------------------------
(* Claims about the Point Splatter *)

\* the window the specification describes: [y-shift, y+shift] x [x-shift, x+shift]
\* clipped to the grid, the last valid index included
ClippedWindow(s, k) ==
    {p \in SplatCells :
        /\ Max2(0, s.y - shift(k)) <= p[1] /\ p[1] <= Min2(shape[2] - 1, s.y + shift(k))
        /\ Max2(0, s.x - shift(k)) <= p[2] /\ p[2] <= Min2(shape[3] - 1, s.x + shift(k))}

\* C1: splatting a single in-grid sample sets to d exactly the cells of the
\* window clipped to the grid (last valid index included) and leaves every
\* other cell at -1.0.
C1_SingleSplatWindow ==
    (splat_pc = "done" /\ Len(lidar_array) = 1) =>
        \A p \in SplatCells :
            range_tensor[p] = IF p \in ClippedWindow(lidar_array[1], kernel_size)
                              THEN lidar_array[1].d ELSE NoReturn

\* the samples processed so far that wrote cell p
Writers(p) == {i \in 1 .. idx : p \in SplatSlice(lidar_array[i], kernel_size)}

\* C9: every cell written by at least one sample holds the range of the last
\* sample, in sequence order, that wrote it; every cell written by no sample
\* holds -1.0.
C9_LastSampleWins ==
    \A p \in SplatCells :
        range_tensor[p] = IF Writers(p) = {} THEN NoReturn
                          ELSE lidar_array[SetMax(Writers(p))].d

\* a farther sample was processed after a nearer one on a shared cell
C9_Witness ==
    /\ splat_pc = "done"
    /\ \E p \in SplatCells : \E i, j \in Writers(p) :
          /\ i < j
          /\ lidar_array[i].d < lidar_array[j].d
          /\ range_tensor[p] = lidar_array[j].d

----------------------------------------------------------------------------
(* pool_lidar_tensor, avgpool_tensor, maxpool_tensor (the downsamplers) *)

\* the stride of all three poolings (10 in the code, scaled to 2)
PoolStride == 2

\* a lidar kernel as square as that of the other two poolings
LidarKernelSquare == <<PoolStride, PoolStride>>

\* MaxPool2d((20,10), stride=(10,10)): the kernel is two strides high, one wide
LidarKernel == <<2 * PoolStride, PoolStride>>

\* AvgPool2d(10, stride=10) and MaxPool2d(10, stride=10): one stride square
SquareKernel == <<PoolStride, PoolStride>>

\* height and width of a full-resolution frame (1280 x 1920, scaled to 6 x 4)
frame_shape == <<6, 4>>

FrameCells == (0 .. frame_shape[1] - 1) \X (0 .. frame_shape[2] - 1)

\* bound on the number of cells of an input frame that differ from its background
MaxMarked == 2

\* raw distances of a lone return, in tenths: 0 m, 0.5 m, 10 m, 25 m, 25.5 m,
\* 50 m, 75 m and the out-of-range 75.5 m and 80 m
Distances == {0, 5, 100, 250, 255, 500, 750, 755, 800}

\* raw distances of the returns of a frame with several returns
CrowdDistances == {100, 255, 800}

\* pixel intensities of an image channel (multiples of the pool window's size)
Intensities == {100, 200}

\* the values a ground-truth heat map holds inside a box, in hundredths
HeatValues == {50, 100}

\* cells are numbered row by row
CellIndex(p) == p[1] * frame_shape[2] + p[2]

\* the choices of n cells, as increasing sequences of cell numbers
MarkSeqs(n) ==
    {f \in [1 .. n -> 0 .. Cardinality(FrameCells) - 1] :
        \A i \in 1 .. n - 1 : f[i] < f[i + 1]}

\* the frame with value v[i] at cell number f[i] and bg at every other cell
FrameOf(bg, f, v) ==
    [p \in FrameCells |->
        IF \E i \in DOMAIN f : f[i] = CellIndex(p)
        THEN v[CHOOSE i \in DOMAIN f : f[i] = CellIndex(p)]
        ELSE bg]

\* t is an input frame: one marked cell with a value of Lone, or up to MaxMarked
\* marked cells with values of Crowd, and bg at every other cell
IsFrame(t, bg, Lone, Crowd) ==
    \E n \in 0 .. MaxMarked :
        \E f \in MarkSeqs(n) :
            \E v \in [1 .. n -> IF n = 1 THEN Lone \cup Crowd ELSE Crowd] :
                t = FrameOf(bg, f, v)

\* lidar_max_range=75.0, in tenths
lidar_max_range == 750

\* lidar_tensor[lidar_tensor>lidar_max_range] = lidar_max_range
ClipRange(v) == IF v > lidar_max_range THEN lidar_max_range ELSE v

\* the sentinel left as it is
RemapNoReturnSkipped(v) == v

\* lidar_tensor[lidar_tensor==-1.0] = lidar_max_range+1
RemapNoReturn(v) == IF v = NoReturn THEN lidar_max_range + 10 ELSE v

\* lidar_tensor[lidar_tensor<=25] = lidar_tensor[lidar_tensor<=25]*-6.2+255
NearBand(v) == IF v <= 250 THEN (-62 * v) \div 10 + 2550 ELSE v

\* a far band whose mask has no upper end
FarBandUnbounded(v) == IF v > 250 THEN -2 * v + 1500 ELSE v

\* lidar_tensor[(lidar_tensor>25)&(lidar_tensor<=lidar_max_range+1)] = ...*-2+150
FarBand(v) == IF v > 250 /\ v <= lidar_max_range + 10 THEN -2 * v + 1500 ELSE v

\* the four in-place statements, in the order of the code
Reencode(v) == FarBand(NearBand(RemapNoReturn(ClipRange(v))))

\* the output height or width of an unpadded pooling: floor((n - k) / s) + 1
PoolOutSize(n, k, s) == (n - k) \div s + 1

\* the input cells of output cell <<r, c>> of a pooling with kernel k and stride s
PoolWindow(r, c, k, s) ==
    {p \in FrameCells : /\ r * s <= p[1] /\ p[1] < r * s + k[1]
                        /\ c * s <= p[2] /\ c * s + k[2] > p[2]}

RECURSIVE SetSum(_, _)
SetSum(f, S) ==
    IF S = {} THEN 0
    ELSE LET x == CHOOSE e \in S : TRUE IN f[x] + SetSum(f, S \ {x})

\* torch.nn.MaxPool2d(k, stride=s)(t)
MaxPool2d(t, k, s) ==
    [q \in (0 .. PoolOutSize(frame_shape[1], k[1], s) - 1)
           \X (0 .. PoolOutSize(frame_shape[2], k[2], s) - 1) |->
        SetMax({t[p] : p \in PoolWindow(q[1], q[2], k, s)})]

\* torch.nn.AvgPool2d(k, stride=s)(t)
AvgPool2d(t, k, s) ==
    [q \in (0 .. PoolOutSize(frame_shape[1], k[1], s) - 1)
           \X (0 .. PoolOutSize(frame_shape[2], k[2], s) - 1) |->
        SetSum(t, PoolWindow(q[1], q[2], k, s)) \div (k[1] * k[2])]

Rows(t) == {q[1] : q \in DOMAIN t}
Cols(t) == {q[2] : q \in DOMAIN t}

\* a padding that replicates the first row above the tensor
PadTopReplicate(t) ==
    [q \in (0 .. SetMax(Rows(t)) + 1) \X Cols(t) |->
        IF q[1] = 0 THEN t[<<0, q[2]>>] ELSE t[<<q[1] - 1, q[2]>>]]

\* torch.nn.functional.pad(t.unsqueeze(0), pad=(0,0,0,1), mode='replicate').squeeze(0)
PadBottomReplicate(t) ==
    [q \in (0 .. SetMax(Rows(t)) + 1) \X Cols(t) |->
        IF q[1] > SetMax(Rows(t)) THEN t[<<SetMax(Rows(t)), q[2]>>] ELSE t[q]]

\* lidar_tensor[lidar_tensor<0] = 0
ClampNegative(t) == [q \in DOMAIN t |-> IF t[q] < 0 THEN 0 ELSE t[q]]

PoolInit ==
    /\ SplatIdle /\ BBIdle /\ GTIdle /\ IoUIdle /\ BatchIdle /\ SplitIdle
    /\ \/ pool_fn = "pool_lidar_tensor" /\ IsFrame(passed, NoReturn, Distances, CrowdDistances)
       \/ pool_fn = "avgpool_tensor" /\ IsFrame(passed, 0, Intensities, Intensities)
       \/ pool_fn = "maxpool_tensor" /\ IsFrame(passed, 0, HeatValues, HeatValues)
    /\ img_tensor = passed
    /\ pool_ret = <<>>
    /\ pool_pc = "called"

\* pool_lidar_tensor(lidar_tensor): re-encodes the argument in place, then pools
pool_lidar_tensor ==
    /\ pool_fn = "pool_lidar_tensor"
    /\ pool_pc = "called"
    /\ pool_pc' = "returned"
    /\ img_tensor' = [p \in FrameCells |-> Reencode(img_tensor[p])]
    /\ pool_ret' = ClampNegative(PadBottomReplicate(
                       MaxPool2d(img_tensor', LidarKernel, PoolStride)))
    /\ UNCHANGED <<pool_fn, passed, notPool>>

\* avgpool_tensor(img_tensor)
avgpool_tensor ==
    /\ pool_fn = "avgpool_tensor"
    /\ pool_pc = "called"
    /\ pool_pc' = "returned"
    /\ pool_ret' = AvgPool2d(img_tensor, SquareKernel, PoolStride)
    /\ UNCHANGED <<pool_fn, passed, img_tensor, notPool>>

\* maxpool_tensor(img_tensor)
maxpool_tensor ==
    /\ pool_fn = "maxpool_tensor"
    /\ pool_pc = "called"
    /\ pool_pc' = "returned"
    /\ pool_ret' = MaxPool2d(img_tensor, SquareKernel, PoolStride)
    /\ UNCHANGED <<pool_fn, passed, img_tensor, notPool>>

PoolNext == pool_lidar_tensor \/ avgpool_tensor \/ maxpool_tensor

SpecPool == PoolInit /\ [][PoolNext]_vars

----------------------------------------------------------------------------
(* Claims about the downsamplers *)

LidarReturned == pool_fn = "pool_lidar_tensor" /\ pool_pc = "returned"

\* the encoding of a real raw distance d >= 0 as the specification states it:
\* -6.2 d + 255 on [0,25], -2 d + 150 on (25,75], and 75 for anything beyond
EncodedRange(d) ==
    IF d <= 250 THEN 2550 - (62 * d) \div 10
    ELSE IF d <= 750 THEN 1500 - 2 * d
    ELSE 0

\* C3: the re-encoding step of pool_lidar_tensor maps a raw d in [0,25] to
\* -6.2 d + 255, d in (25,75] to -2 d + 150 and d > 75 to 0; the map is strictly
\* decreasing on [0,75], and a near-band value is not transformed a second
\* time by the far-band step.
C3_Reencoding ==
    LidarReturned =>
        /\ \A p \in FrameCells :
              passed[p] >= 0 => img_tensor[p] = EncodedRange(passed[p])
        /\ \A p, q \in FrameCells :
              (0 <= passed[p] /\ passed[p] < passed[q] /\ passed[q] <= 750)
                  => img_tensor[p] > img_tensor[q]

\* a frame with a near-band and a far-band return has been re-encoded
C3_Witness ==
    /\ LidarReturned
    /\ \E p, q \in FrameCells :
          /\ passed[p] = 100 /\ img_tensor[p] = 1930
          /\ passed[q] = 255 /\ img_tensor[q] = 990

\* the rows and columns of the full-resolution block behind output cell <<r, c>>
BlockRows(r) == (PoolStride * r) .. (PoolStride * r + PoolStride - 1)
BlockCols(c) == (PoolStride * c) .. (PoolStride * c + PoolStride - 1)
\* the rows of the lidar pool window of output row r: two blocks high
TallRows(r) == (PoolStride * r) .. (PoolStride * r + 2 * PoolStride - 1)

\* the target size: 128 x 192 for a 1280 x 1920 frame
OutRows == frame_shape[1] \div PoolStride
OutCols == frame_shape[2] \div PoolStride
OutCells == (0 .. OutRows - 1) \X (0 .. OutCols - 1)

\* the raw distances of the real returns among the cells of rows R and columns C
Returns(R, C) == {passed[p] : p \in {q \in R \X C : passed[q] # NoReturn}}

BlockMax(t, R, C) == SetMax({t[p] : p \in R \X C})

\* C5 as stated: the output is 128 x 192, cell (r, c) for r <= 126 is the
\* maximum of the re-encoded grid over rows 10r..10r+19 and columns 10c..10c+9,
\* row 127 is a copy of row 126, and no cell is negative.
C5_AsStated ==
    LidarReturned =>
        /\ DOMAIN pool_ret = OutCells
        /\ \A r \in 0 .. OutRows - 2, c \in 0 .. OutCols - 1 :
              pool_ret[<<r, c>>] = BlockMax(img_tensor, TallRows(r), BlockCols(c))
        /\ \A c \in 0 .. OutCols - 1 :
              pool_ret[<<OutRows - 1, c>>] = pool_ret[<<OutRows - 2, c>>]
        /\ \A q \in OutCells : pool_ret[q] >= 0

\* C5 amended: as C5, with a negative maximum (a window of no-return cells
\* only, re-encoded to -2) replaced by 0.
C5_PooledShapeAndValues ==
    LidarReturned =>
        /\ DOMAIN pool_ret = OutCells
        /\ \A r \in 0 .. OutRows - 2, c \in 0 .. OutCols - 1 :
              pool_ret[<<r, c>>] =
                  Max2(0, BlockMax(img_tensor, TallRows(r), BlockCols(c)))
        /\ \A c \in 0 .. OutCols - 1 :
              pool_ret[<<OutRows - 1, c>>] = pool_ret[<<OutRows - 2, c>>]
        /\ \A q \in OutCells : pool_ret[q] >= 0

\* a return in the lowest rows shows in the last two output rows only, and a
\* window without returns gives 0
C5_Witness ==
    /\ LidarReturned
    /\ \E c \in 0 .. OutCols - 1 :
          /\ pool_ret[<<OutRows - 1, c>>] > 0
          /\ pool_ret[<<OutRows - 2, c>>] = pool_ret[<<OutRows - 1, c>>]
          /\ pool_ret[<<0, c>>] = 0
          /\ BlockMax(img_tensor, TallRows(0), BlockCols(c)) < 0

\* the sum of tensor t over rows R and columns C
BlockSum(t, R, C) == SetSum(t, R \X C)

\* image and heat map: the right size, every cell from its own block
SquareBlocks ==
    /\ (pool_fn = "avgpool_tensor" /\ pool_pc = "returned") =>
          /\ DOMAIN pool_ret = OutCells
          /\ \A q \in OutCells :
                pool_ret[q] = BlockSum(img_tensor, BlockRows(q[1]), BlockCols(q[2]))
                                  \div (PoolStride * PoolStride)
    /\ (pool_fn = "maxpool_tensor" /\ pool_pc = "returned") =>
          /\ DOMAIN pool_ret = OutCells
          /\ \A q \in OutCells :
                pool_ret[q] = BlockMax(img_tensor, BlockRows(q[1]), BlockCols(q[2]))

\* C10 as stated: the three low-resolution tensors have size 128 x 192 and every
\* output cell (r, c) of each is computed from the same block of full-resolution
\* pixels, rows 10r..10r+9 and columns 10c..10c+9.
C10_AsStated ==
    /\ SquareBlocks
    /\ LidarReturned =>
          /\ DOMAIN pool_ret = OutCells
          /\ \A q \in OutCells :
                pool_ret[q] =
                    Max2(0, BlockMax(img_tensor, BlockRows(q[1]), BlockCols(q[2])))

\* C10 amended: the three tensors have size 128 x 192; a cell (r, c) of the
\* image and of the heat map is computed from rows 10r..10r+9 and columns
\* 10c..10c+9, and a cell of the lidar tensor from the same columns but rows
\* 10r..10r+19 for r <= 126 and rows 1260..1279 for r = 127.
C10_PixelGrid ==
    /\ SquareBlocks
    /\ LidarReturned =>
          /\ DOMAIN pool_ret = OutCells
          /\ \A q \in OutCells :
                pool_ret[q] =
                    Max2(0, BlockMax(img_tensor,
                                     TallRows(Min2(q[1], OutRows - 2)),
                                     BlockCols(q[2])))

\* a lone return in the second block row shows in its own output cell and, the
\* lidar window being two blocks high, in the cell above it as well
C10_Witness ==
    /\ LidarReturned
    /\ \E p \in BlockRows(1) \X BlockCols(0) :
          /\ passed[p] = 100
          /\ \A q \in FrameCells : q # p => passed[q] = NoReturn
          /\ pool_ret[<<1, 0>>] = 1930
          /\ pool_ret[<<0, 0>>] = 1930
          /\ pool_ret[<<1, 1>>] = 0

\* C11: once a downsampler has returned, the full-resolution grid that was
\* passed to it holds exactly the values it held before the call.
C11_ArgumentUnchanged == pool_pc = "returned" => img_tensor = passed

----------------------------------------------------------------------------
(* _create_ground_truth_bb and the class templates *)

\* confidence values, in hundredths
unlikely == 30
uncertain == 50
half_certain == 75
\* the value of np.ones, in hundredths
one == 100

\* bounds on the box sizes tried
MaxBoxHeight == 10
MaxBoxWidth == 8

\* label classes: the recognized 1 (VEHICLE), 2 (PEDESTRIAN), 4 (CYCLIST), and
\* the label.proto classes 0 (UNKNOWN) and 3 (SIGN)
LabelClasses == {0, 1, 2, 3, 4}

\* the indices a slice lo:hi selects on an axis of length n (0 <= lo, 0 <= hi)
Slice(lo, hi, n) == {i \in 0 .. n - 1 : lo <= i /\ i < hi}

\* box[R, C] = v
BoxAssign(box, R, C, v) ==
    [p \in DOMAIN box |-> IF p[1] \in R /\ p[2] \in C THEN v ELSE box[p]]

\* a fraction of a quarter of the height
height_fraction_quarter(height) == height \div 4

\* height_fraction = height//5
height_fraction(height) == height \div 5

\* width_fraction = width//4
width_fraction(width) == width \div 4

\* np.ones((height, width))
Ones(height, width) == [p \in (0 .. height - 1) \X (0 .. width - 1) |-> one]

\* _create_ground_truth_bb_pedestrian: the five slice assignments, in order
create_ground_truth_bb_pedestrian(box, height, width) ==
    LET hf == height_fraction(height)
        wf == width_fraction(width)
        b1 == BoxAssign(box, Slice(0, hf, height), Slice(0, wf, width), unlikely)
        b2 == BoxAssign(b1, Slice(0, hf, height), Slice(wf * 3, width, width), unlikely)
        b3 == BoxAssign(b2, Slice(hf * 3, height, height), Slice(0, wf, width), uncertain)
        b4 == BoxAssign(b3, Slice(hf * 3, height, height), Slice(wf * 3, width, width),
                        uncertain)
    IN  BoxAssign(b4, Slice(hf * 3, height, height), Slice(wf, wf * 3, width),
                  half_certain)

create_ground_truth_bb_cyclist(box) == box

create_ground_truth_bb_vehicle(box) == box

\* whether _create_ground_truth_bb raises TypeError for the class
RaisesTypeError(class) == class # 2 /\ class # 4 /\ class # 1

\* what _create_ground_truth_bb returns for a class it does not raise for
create_ground_truth_bb(class, width, height) ==
    IF class = 2 THEN create_ground_truth_bb_pedestrian(Ones(height, width), height, width)
    ELSE IF class = 4 THEN create_ground_truth_bb_cyclist(Ones(height, width))
    ELSE create_ground_truth_bb_vehicle(Ones(height, width))

BBInit ==
    /\ SplatIdle /\ PoolIdle /\ GTIdle /\ IoUIdle /\ BatchIdle /\ SplitIdle
    /\ object_class \in LabelClasses
    /\ bb_width \in 0 .. MaxBoxWidth
    /\ bb_height \in 0 .. MaxBoxHeight
    /\ ground_truth_box = <<>>
    /\ bb_pc = "called"

\* _create_ground_truth_bb returns the box of a recognized class
BBReturn ==
    /\ bb_pc = "called"
    /\ ~RaisesTypeError(object_class)
    /\ ground_truth_box' = create_ground_truth_bb(object_class, bb_width, bb_height)
    /\ bb_pc' = "returned"
    /\ UNCHANGED <<object_class, bb_width, bb_height, notBB>>

\* raise TypeError('the ground truth label class does not exist')
BBRaise ==
    /\ bb_pc = "called"
    /\ RaisesTypeError(object_class)
    /\ bb_pc' = "raised"
    /\ UNCHANGED <<object_class, bb_width, bb_height, ground_truth_box, notBB>>

BBNext == BBReturn \/ BBRaise

SpecBB == BBInit /\ [][BBNext]_vars

----------------------------------------------------------------------------
(* Claims about the class templates *)

\* the value of cell (r, c) of a pedestrian box carved at rows a and b and
\* columns p and q
Carved(r, c, a, b, p, q) ==
    IF r < a /\ (c < p \/ c >= q) THEN 30
    ELSE IF r >= b /\ (c < p \/ c >= q) THEN 50
    ELSE IF r >= b /\ p <= c /\ c < q THEN 75
    ELSE 100

PedestrianReturned(minh, minw) ==
    /\ bb_pc = "returned" /\ object_class = 2
    /\ bb_height >= minh /\ bb_width >= minw

\* C7 as stated: for a PEDESTRIAN box of height h >= 5 and width w >= 4 the
\* regions are cut at a = h div 5, b = 3h div 5, p = w div 4, q = 3w div 4.
C7_AsStated ==
    PedestrianReturned(5, 4) =>
        \A cell \in (0 .. bb_height - 1) \X (0 .. bb_width - 1) :
            ground_truth_box[cell] =
                Carved(cell[1], cell[2], bb_height \div 5, (3 * bb_height) \div 5,
                       bb_width \div 4, (3 * bb_width) \div 4)

\* C7 amended: for a PEDESTRIAN box of height h >= 5 and width w >= 4 the
\* regions are cut at a = h div 5, b = 3 (h div 5), p = w div 4, q = 3 (w div 4):
\* 0.3 at rows [0,a) and columns [0,p) or [q,w), 0.5 at rows [b,h) and those
\* columns, 0.75 at rows [b,h) and columns [p,q), and 1.0 at every other cell.
C7_PedestrianTemplate ==
    PedestrianReturned(5, 4) =>
        /\ DOMAIN ground_truth_box = (0 .. bb_height - 1) \X (0 .. bb_width - 1)
        /\ \A cell \in (0 .. bb_height - 1) \X (0 .. bb_width - 1) :
              ground_truth_box[cell] =
                  Carved(cell[1], cell[2], bb_height \div 5, 3 * (bb_height \div 5),
                         bb_width \div 4, 3 * (bb_width \div 4))

\* the box of height 10 and width 8 of the specification's example
C7_Witness ==
    /\ PedestrianReturned(10, 8)
    /\ bb_height = 10 /\ bb_width = 8
    /\ ground_truth_box[<<0, 0>>] = 30
    /\ ground_truth_box[<<9, 0>>] = 50
    /\ ground_truth_box[<<9, 4>>] = 75
    /\ ground_truth_box[<<5, 4>>] = 100

\* C13: a PEDESTRIAN box of height < 5 or width < 4 keeps the value 1.0 in
\* every cell: the template regions of the too-small dimension are empty.
C13_SmallBoxKeepsOne ==
    (PedestrianReturned(0, 0) /\ (bb_height < 5 \/ bb_width < 4)) =>
        \A cell \in (0 .. bb_height - 1) \X (0 .. bb_width - 1) :
            ground_truth_box[cell] = one

----------------------------------------------------------------------------
(* create_ground_truth_maps (Ground-Truth Heat-Map Synthesizer) *)

\* height_img and width_img (1280 and 1920, scaled to 6 and 5)
gt_shape == <<6, 5>>

GTCells == (0 .. gt_shape[1] - 1) \X (0 .. gt_shape[2] - 1)

\* bound on the number of labels of a frame
MaxLabels == 2

\* the box sizes tried, <<height, width>>: the smallest box with a full
\* pedestrian template and a small box
BoxSizes == {<<5, 4>>, <<3, 3>>}

\* the classes of the labels of a frame: the recognized ones and SIGN
FrameClasses == {1, 2, 3, 4}

\* labels whose box lies inside the image, flush with one of its corners
Labels ==
    {l \in [type : FrameClasses, x : 0 .. gt_shape[2] - 1, y : 0 .. gt_shape[1] - 1,
            width : {b[2] : b \in BoxSizes}, height : {b[1] : b \in BoxSizes}] :
        /\ <<l.height, l.width>> \in BoxSizes
        /\ l.y \in {0, gt_shape[1] - l.height}
        /\ l.x \in {0, gt_shape[2] - l.width}}

\* obj_idx = (object_class==1)*0+(object_class==2)*1+(object_class==4)*2
obj_idx(class) ==
    (IF class = 1 THEN 1 ELSE 0) * 0 + (IF class = 2 THEN 1 ELSE 0) * 1
        + (IF class = 4 THEN 1 ELSE 0) * 2

\* whether cell p lies in the slice [y:y+height, x:x+width] of label l
InBox(p, l) ==
    /\ l.y <= p[1] /\ p[1] < l.y + l.height
    /\ l.x <= p[2] /\ p[2] < l.x + l.width

\* a write that keeps the larger of the old and the new value
MapAssignMax(mp, ch, l, box) ==
    [mp EXCEPT ![ch] =
        [p \in GTCells |->
            IF InBox(p, l) /\ box[<<p[1] - l.y, p[2] - l.x>>] > @[p]
            THEN box[<<p[1] - l.y, p[2] - l.x>>] ELSE @[p]]]

\* maps[obj_idx, y:y+height_bb, x:x+width_bb] = box
MapAssign(mp, ch, l, box) ==
    [mp EXCEPT ![ch] =
        [p \in GTCells |->
            IF InBox(p, l) THEN box[<<p[1] - l.y, p[2] - l.x>>] ELSE @[p]]]

GTInit ==
    /\ SplatIdle /\ PoolIdle /\ BBIdle /\ IoUIdle /\ BatchIdle /\ SplitIdle
    /\ IsSeqUpTo(ground_truth, Labels, MaxLabels)
    /\ elem_idx = 0
    /\ maps = [ch \in 0 .. 2 |-> [p \in GTCells |-> 0]]
    /\ gt_pc = "loop"

\* a loop body without the class test of line 249
GTStepUnfiltered ==
    /\ gt_pc = "loop"
    /\ elem_idx < Len(ground_truth)
    /\ LET elem == ground_truth[elem_idx + 1]
       IN  IF RaisesTypeError(elem.type)
           THEN gt_pc' = "raised" /\ UNCHANGED <<maps, elem_idx>>
           ELSE /\ maps' = MapAssign(maps, obj_idx(elem.type), elem,
                               create_ground_truth_bb(elem.type, elem.width, elem.height))
                /\ elem_idx' = elem_idx + 1
                /\ gt_pc' = gt_pc
    /\ UNCHANGED <<ground_truth, notGT>>

\* one iteration of: for elem in ground_truth.values()
GTStep ==
    /\ gt_pc = "loop"
    /\ elem_idx < Len(ground_truth)
    /\ LET elem == ground_truth[elem_idx + 1]
       IN  IF elem.type = 1 \/ elem.type = 2 \/ elem.type = 4
           THEN IF RaisesTypeError(elem.type)
                THEN gt_pc' = "raised" /\ UNCHANGED <<maps, elem_idx>>
                ELSE /\ maps' = MapAssign(maps, obj_idx(elem.type), elem,
                                    create_ground_truth_bb(elem.type, elem.width,
                                                           elem.height))
                     /\ elem_idx' = elem_idx + 1
                     /\ gt_pc' = gt_pc
           ELSE /\ elem_idx' = elem_idx + 1
                /\ UNCHANGED <<maps, gt_pc>>
    /\ UNCHANGED <<ground_truth, notGT>>

\* return torch.Tensor(maps)
GTReturn ==
    /\ gt_pc = "loop"
    /\ elem_idx = Len(ground_truth)
    /\ gt_pc' = "done"
    /\ UNCHANGED <<ground_truth, elem_idx, maps, notGT>>

GTNext == GTStep \/ GTReturn

SpecGT == GTInit /\ [][GTNext]_vars

----------------------------------------------------------------------------
(* Claims about the Ground-Truth Heat-Map Synthesizer *)

Recognized(class) == class \in {1, 2, 4}

ChannelOf(class) == CASE class = 1 -> 0 [] class = 2 -> 1 [] class = 4 -> 2

\* the processed boxes of channel ch that cover cell p
Coverers(ch, p) ==
    {i \in 1 .. elem_idx : /\ Recognized(ground_truth[i].type)
                           /\ ChannelOf(ground_truth[i].type) = ch
                           /\ InBox(p, ground_truth[i])}

\* the template value of label l at cell p of the image
TemplateAt(l, p) ==
    create_ground_truth_bb(l.type, l.width, l.height)[<<p[1] - l.y, p[2] - l.x>>]

\* C8: every cell of channel c holds the template value of the last-processed
\* box of that class covering the cell (no accumulation, no max), or 0 if no
\* box of that class covers it; a box never changes a cell of another class's
\* channel.
C8_LastBoxWins ==
    gt_pc \in {"loop", "done"} =>
        \A ch \in 0 .. 2, p \in GTCells :
            maps[ch][p] = IF Coverers(ch, p) = {} THEN 0
                          ELSE TemplateAt(ground_truth[SetMax(Coverers(ch, p))], p)

\* two pedestrian boxes overlap on a cell where the later one has the smaller
\* template value, and the other channels are untouched
C8_Witness ==
    /\ gt_pc = "done"
    /\ \E p \in GTCells : \E i, j \in Coverers(1, p) :
          /\ i < j
          /\ TemplateAt(ground_truth[j], p) < TemplateAt(ground_truth[i], p)
          /\ maps[1][p] = TemplateAt(ground_truth[j], p)
          /\ maps[0][p] = 0 /\ maps[2][p] = 0

----------------------------------------------------------------------------
(* compute_IoU_whole_img_per_class (IoU-style Overlap Metric) *)

\* the shape (classes, height, width) of the two maps tried
iou_shape == <<2, 1, 3>>

IoUClasses == 0 .. iou_shape[1] - 1
IoUCells == (0 .. iou_shape[2] - 1) \X (0 .. iou_shape[3] - 1)

\* the values of a map cell and the thresholds tried, in hundredths
MapValues == {30, 70}
Thresholds == {50, 70, 80}

IoUMaps == [IoUClasses -> [IoUCells -> MapValues]]

\* a comparison that leaves out the threshold itself
AboveThreshold(m, t) == [c \in IoUClasses |-> [p \in IoUCells |-> m[c][p] > t]]

\* map >= threshold
AtLeastThreshold(m, t) == [c \in IoUClasses |-> [p \in IoUCells |-> m[c][p] >= t]]

\* torch.sum(b, axis=(1,2)): per class, the number of true cells
SumTrue(b) ==
    [c \in IoUClasses |-> SetSum([p \in IoUCells |-> IF b[c][p] THEN 1 ELSE 0], IoUCells)]

\* a quotient of two counts is kept as numerator and denominator; 0/0 is nan
NaN == [num |-> 0, den |-> 0]

\* intersection/union, element by element
TensorDivide(a, b) ==
    [c \in IoUClasses |-> IF b[c] = 0 /\ a[c] = 0 THEN NaN ELSE [num |-> a[c], den |-> b[c]]]

\* nan scores left as they are
NanKept(q) == q

\* iou_per_class[torch.isnan(iou_per_class)] = 0
NanToZero(q) == [c \in IoUClasses |-> IF q[c] = NaN THEN [num |-> 0, den |-> 1] ELSE q[c]]

IoUInit ==
    /\ SplatIdle /\ PoolIdle /\ BBIdle /\ GTIdle /\ BatchIdle /\ SplitIdle
    /\ ground_truth_map \in IoUMaps
    /\ estimated_heat_map \in IoUMaps
    /\ threshold \in Thresholds
    /\ iou_per_class = <<>>
    /\ iou_pc = "called"

\* the value compute_IoU_whole_img_per_class returns for the maps gt and est
IoU_whole_img_per_class(gt, est, t) ==
    LET est_bool == AtLeastThreshold(est, t)
        gt_bool == AtLeastThreshold(gt, t)
        intersection ==
            SumTrue([c \in IoUClasses |-> [p \in IoUCells |-> est_bool[c][p] /\ gt_bool[c][p]]])
        union ==
            SumTrue([c \in IoUClasses |-> [p \in IoUCells |-> est_bool[c][p] \/ gt_bool[c][p]]])
    IN  NanToZero(TensorDivide(intersection, union))

\* compute_IoU_whole_img_per_class(ground_truth_map, estimated_heat_map, threshold)
compute_IoU_whole_img_per_class ==
    /\ iou_pc = "called"
    /\ iou_per_class' =
          IoU_whole_img_per_class(ground_truth_map, estimated_heat_map, threshold)
    /\ iou_pc' = "returned"
    /\ UNCHANGED <<ground_truth_map, estimated_heat_map, threshold, notIoU>>

IoUNext == compute_IoU_whole_img_per_class

SpecIoU == IoUInit /\ [][IoUNext]_vars

----------------------------------------------------------------------------
(* Claims about the IoU-style Overlap Metric *)

\* the cells of class c where both maps, or either map, reach the threshold
BothReach(c) ==
    {p \in IoUCells : ground_truth_map[c][p] >= threshold /\ estimated_heat_map[c][p] >= threshold}
EitherReaches(c) ==
    {p \in IoUCells : ground_truth_map[c][p] >= threshold \/ estimated_heat_map[c][p] >= threshold}

\* C6: for every class the score is (cells where both maps reach the threshold)
\* / (cells where either does); it is exactly 0, not an error and not NaN, when
\* no cell of the class reaches the threshold in either map; every score lies
\* in [0,1].
C6_IoUPerClass ==
    /\ iou_pc # "raised"
    /\ iou_pc = "returned" =>
          \A c \in IoUClasses :
              LET score == iou_per_class[c]
              IN  /\ score.den > 0
                  /\ 0 <= score.num /\ score.num <= score.den
                  /\ EitherReaches(c) = {} => score.num = 0
                  /\ EitherReaches(c) # {} =>
                        score.num * Cardinality(EitherReaches(c))
                            = Cardinality(BothReach(c)) * score.den

\* one class has union 0 and score 0, the other a score strictly between 0 and 1
C6_Witness ==
    /\ iou_pc = "returned"
    /\ EitherReaches(0) = {} /\ iou_per_class[0] = [num |-> 0, den |-> 1]
    /\ Cardinality(BothReach(1)) = 2 /\ Cardinality(EitherReaches(1)) = 3
    /\ iou_per_class[1] = [num |-> 2, den |-> 3]

-----------------------------------------------------------------------------
(* compute_IoU_whole_img_batch *)

\* the largest batch tried
MaxBatch == 2

\* one class of a map: the cells left of column k hold 0.7, the others 0.3
Reach(k) == [p \in IoUCells |-> IF p[2] < k THEN 70 ELSE 30]

\* the columns reached in a ground-truth class and in an estimated class
GtReach == {0, 2}
EstReach == {0, 1, 2}

\* the thresholds tried: the default 0.7, and one no cell reaches
BatchThresholds == {70, 80}

\* b is a batch of 1 .. MaxBatch maps whose classes are Reach(k), k in Ks
IsBatch(b, n, Ks) == b \in [0 .. n - 1 -> [IoUClasses -> {Reach(k) : k \in Ks}]]

\* torch.zeros(N, classes)
Zeros(n) == [inst \in 0 .. n - 1 |-> [c \in IoUClasses |-> [num |-> 0, den |-> 1]]]

\* the sum of two quotients
FracAdd(a, b) == [num |-> a.num * b.den + b.num * a.den, den |-> a.den * b.den]

\* the sum of class c over the first n rows of x
RECURSIVE SumRows(_, _, _)
SumRows(x, c, n) ==
    IF n = 0 THEN [num |-> 0, den |-> 1] ELSE FracAdd(SumRows(x, c, n - 1), x[n - 1][c])

\* a sum over the instances that is not divided by their number
TorchSumAxis0(x) == [c \in IoUClasses |-> SumRows(x, c, Cardinality(DOMAIN x))]

\* torch.mean(x, axis=0)
TorchMeanAxis0(x) ==
    [c \in IoUClasses |->
        LET total == SumRows(x, c, Cardinality(DOMAIN x))
        IN  [num |-> total.num, den |-> total.den * Cardinality(DOMAIN x)]]

BatchInit ==
    /\ SplatIdle /\ PoolIdle /\ BBIdle /\ GTIdle /\ IoUIdle /\ SplitIdle
    /\ \E n \in 1 .. MaxBatch :
          /\ IsBatch(gt_batch, n, GtReach)
          /\ IsBatch(est_batch, n, EstReach)
          /\ iou_per_instance_per_class = Zeros(n)
    /\ batch_threshold \in BatchThresholds
    /\ batch_i = 0
    /\ batch_ret = <<>>
    /\ batch_pc = "loop"

\* one pass of: for i, (gt_map, h_map) in enumerate(zip(gt_batch, est_batch))
BatchStep ==
    /\ batch_pc = "loop"
    /\ batch_i < Cardinality(DOMAIN gt_batch)
    /\ iou_per_instance_per_class' =
          [iou_per_instance_per_class EXCEPT
              ![batch_i] = IoU_whole_img_per_class(gt_batch[batch_i], est_batch[batch_i],
                                                   batch_threshold)]
    /\ batch_i' = batch_i + 1
    /\ UNCHANGED <<gt_batch, est_batch, batch_threshold, batch_ret, batch_pc, notBatch>>

\* return torch.mean(iou_per_instance_per_class, axis=0)
BatchReturn ==
    /\ batch_pc = "loop"
    /\ batch_i = Cardinality(DOMAIN gt_batch)
    /\ batch_ret' = TorchMeanAxis0(iou_per_instance_per_class)
    /\ batch_pc' = "returned"
    /\ UNCHANGED <<gt_batch, est_batch, batch_threshold, batch_i,
                   iou_per_instance_per_class, notBatch>>

BatchNext == BatchStep \/ BatchReturn

SpecBatch == BatchInit /\ [][BatchNext]_vars

-----------------------------------------------------------------------------
(* Claims about compute_IoU_whole_img_batch *)

\* the cells of class c that both maps, or either map, of instance n reach
BatchBoth(n, c) ==
    {p \in IoUCells : /\ gt_batch[n][c][p] >= batch_threshold
                      /\ est_batch[n][c][p] >= batch_threshold}

BatchEither(n, c) ==
    {p \in IoUCells : \/ gt_batch[n][c][p] >= batch_threshold
                      \/ est_batch[n][c][p] >= batch_threshold}

\* the denominator of the score of instance n: its union, or 1 for the score 0
ScoreDen(n, c) == IF BatchEither(n, c) = {} THEN 1 ELSE Cardinality(BatchEither(n, c))

\* the product of the denominators of the instances in S
RECURSIVE DenProduct(_, _)
DenProduct(S, c) ==
    IF S = {} THEN 1
    ELSE LET n == CHOOSE m \in S : TRUE IN ScoreDen(n, c) * DenProduct(S \ {n}, c)

\* the sum of the scores of the instances in S, over DenProduct(S, c)
ScoreSum(S, c) ==
    SetSum([n \in S |-> Cardinality(BatchBoth(n, c)) * DenProduct(S \ {n}, c)], S)

\* C12: for every class c the returned value is the arithmetic mean over the
\* N instances of the per-instance score |both| / |either| of class c, an
\* instance whose union is empty counting as 0; no other class enters it.
C12_BatchMean ==
    batch_pc = "returned" =>
        \A c \in IoUClasses :
            LET S == DOMAIN gt_batch
            IN  /\ batch_ret[c].den > 0
                /\ batch_ret[c].num * (Cardinality(S) * DenProduct(S, c)) =
                       batch_ret[c].den * ScoreSum(S, c)

\* instance scores [1, 0] and [1/2, 1/2] give the batch scores [3/4, 1/4]
C12_Witness ==
    /\ batch_pc = "returned" /\ batch_threshold = 70
    /\ DOMAIN gt_batch = {0, 1}
    /\ gt_batch[0] = [c \in IoUClasses |-> Reach(2)]
    /\ gt_batch[1] = [c \in IoUClasses |-> Reach(2)]
    /\ est_batch[0] = [c \in IoUClasses |-> IF c = 0 THEN Reach(2) ELSE Reach(0)]
    /\ est_batch[1] = [c \in IoUClasses |-> Reach(1)]
    /\ 4 * batch_ret[0].num = 3 * batch_ret[0].den
    /\ 4 * batch_ret[1].num = batch_ret[1].den

-----------------------------------------------------------------------------
(* distribute_data_into_train_val_test *)

\* the most entries of data_root and the most files of a datatype tried
MaxDirs == 2
MaxFiles == 4

\* config.dataset.datatypes
datatypes == <<"images", "lidar", "labels", "heat_maps">>

\* the sub directories, in the order of enumerate(['train', 'val', 'test'])
sub_dirs == <<"train", "val", "test">>

\* the splits tried, [train, val, test] in tenths: [0.8, 0.1, 0.1], [0.5, 0.3, 0.2]
Splits == {<<8, 1, 1>>, <<5, 3, 2>>}

\* an entry of listdir(data_root): whether its name starts with 'tf_', and the
\* number of files in each of its datatype directories
DirEntries ==
    {[tf |-> FALSE, num_samples |-> 0]} \cup
    {[tf |-> TRUE, num_samples |-> n] : n \in 0 .. MaxFiles}

\* the outcomes of np.random.shuffle(list(range(0, n))): position -> file index
Shuffles(n) ==
    {f \in [0 .. n - 1 -> 0 .. n - 1] : \A a, b \in 0 .. n - 1 : f[a] = f[b] => a = b}

\* int(x) of a non-negative x kept in tenths
IntOf(x) == x \div 10

\* [0, int(split[0]), int(split[0]+split[1]), num_samples]
SplitIndices(sp, n) == <<0, IntOf(sp[1]), IntOf(sp[1] + sp[2]), n>>

\* where the file file_idx of a datatype is after the three renaming loops:
\* in the sub directory whose slice of indices holds it, or still in old_path
SubDirOf(ind, si, n, file_idx) ==
    LET holds(set_idx) ==
            \E pos \in Slice(si[set_idx], si[set_idx + 1], n) : ind[pos] = file_idx
    IN  IF holds(1) THEN sub_dirs[1]
        ELSE IF holds(2) THEN sub_dirs[2]
        ELSE IF holds(3) THEN sub_dirs[3]
        ELSE "old"

SplitInit ==
    /\ SplatIdle /\ PoolIdle /\ BBIdle /\ GTIdle /\ IoUIdle /\ BatchIdle
    /\ split_arg \in Splits
    /\ split = split_arg
    /\ IsSeqUpTo(data_root, DirEntries, MaxDirs)
    /\ dir_idx = 0
    /\ indices = <<>>
    /\ moved = <<>>
    /\ split_pc = "loop"

\* an entry whose name does not start with 'tf_': continue
SplitSkip ==
    /\ split_pc = "loop"
    /\ dir_idx < Len(data_root)
    /\ ~data_root[dir_idx + 1].tf
    /\ dir_idx' = dir_idx + 1
    /\ indices' = Append(indices, <<>>)
    /\ moved' = Append(moved, <<>>)
    /\ UNCHANGED <<split_arg, split, data_root, split_pc, notSplit>>

\* one pass of the loop over listdir(data_root) for a 'tf_' directory
SplitDir ==
    /\ split_pc = "loop"
    /\ dir_idx < Len(data_root)
    /\ data_root[dir_idx + 1].tf
    /\ LET num_samples == data_root[dir_idx + 1].num_samples
       IN  \E shuffled \in Shuffles(num_samples) :
              /\ split' = [k \in 1 .. 3 |-> split[k] * num_samples]
              /\ indices' = Append(indices, shuffled)
              /\ moved' =
                    Append(moved,
                           [t \in 1 .. Len(datatypes) |->
                               [file_idx \in 0 .. num_samples - 1 |->
                                   SubDirOf(shuffled, SplitIndices(split', num_samples),
                                            num_samples, file_idx)]])
    /\ dir_idx' = dir_idx + 1
    /\ UNCHANGED <<split_arg, data_root, split_pc, notSplit>>

\* listdir(data_root) is exhausted
SplitReturn ==
    /\ split_pc = "loop"
    /\ dir_idx = Len(data_root)
    /\ split_pc' = "done"
    /\ UNCHANGED <<split_arg, split, data_root, dir_idx, indices, moved, notSplit>>

SplitNext == SplitSkip \/ SplitDir \/ SplitReturn

SpecSplit == SplitInit /\ [][SplitNext]_vars

-----------------------------------------------------------------------------
(* Claims about distribute_data_into_train_val_test *)

\* the files of datatype t of directory d that are in sub directory sub
FilesIn(d, t, sub) == {f \in DOMAIN moved[d][t] : moved[d][t][f] = sub}

\* C14: for every 'tf_' directory processed, the first and every later one,
\* with n files per datatype and the split [p_train, p_val, p_test] of the
\* call: train holds int(p_train n) files, train and val together
\* int((p_train + p_val) n), test the rest, every file is in exactly one of
\* the three, and a file index is in the same subset for all datatypes.
C14_EveryDirectorySplit ==
    \A d \in 1 .. dir_idx :
        data_root[d].tf =>
            \A t \in 1 .. Len(datatypes) :
                LET n == data_root[d].num_samples
                    train == Cardinality(FilesIn(d, t, "train"))
                    val == Cardinality(FilesIn(d, t, "val"))
                    test == Cardinality(FilesIn(d, t, "test"))
                IN  /\ train = IntOf(split_arg[1] * n)
                    /\ train + val = IntOf((split_arg[1] + split_arg[2]) * n)
                    /\ train + val + test = n
                    /\ moved[d][t] = moved[d][1]

=============================================================================
